---- MODULE Spec2Model ----
(***************************************************************************)
(* A model of the llmflow interpreter (src/src/interpreter.ts): the        *)
(* recursive routine dispatcher executeRoutine, the six routine handlers,  *)
(* the passthrough step, run, and the LLMService collaborators of          *)
(* src/src/llm.ts and of the refinement test (src/unnamed/part_000).       *)
(*                                                                         *)
(* The call stack of the recursive interpreter is explicit: `stack` holds  *)
(* one frame per active if / compose / join handler, `arg` the pending     *)
(* executeRoutine call and `ret` the {outputs, trace} pair just returned.  *)
(* A leaf handler (prompt, code, define) runs in one step.  A throw        *)
(* unwinds the whole stack, because no handler catches around a recursive  *)
(* call (the only try/catch, in handleCode, wraps the expression only).    *)
(*                                                                         *)
(* JavaScript values are records [t, s]: t is the typeof-like tag and s    *)
(* the text String(v) yields.  Objects and arrays also carry m, their own  *)
(* enumerable properties.  An environment is a function whose DOMAIN is    *)
(* the set of keys present (`k in env`); a key may be present and hold     *)
(* Undefined.                                                              *)
(*                                                                         *)
(* Environments and outputs are JavaScript objects passed by reference.    *)
(* Each carries a number: 0 is the object given to run, and every handler  *)
(* that creates an outputs object takes the next number.  `envId` of a     *)
(* call or frame and `oid` of a trace node name the object whose keys and  *)
(* values are held next to it, so that a write to an object reaches every  *)
(* holder of it.  trace.inputs is a fresh copy and has no number.          *)
(***************************************************************************)
EXTENDS Integers, Sequences, FiniteSets, TLC

VARIABLES program, llmService, validation, pc, arg, stack, ret, result, error,
          callCount, calls, initialEnv, nextId

vars == <<program, llmService, validation, pc, arg, stack, ret, result, error,
          callCount, calls, initialEnv, nextId>>

\* The JavaScript call stack is finite: one more nested handler than this
\* and the engine throws RangeError.
MaxDepth == 6

---------------------------------------------------------------------------
(* JavaScript values *)

Str(s) == [t |-> "string", s |-> s]

Num(s) == [t |-> "number", s |-> s]

Bool(b) == [t |-> "boolean", s |-> IF b THEN "true" ELSE "false"]

Null == [t |-> "null", s |-> "null"]

Undefined == [t |-> "undefined", s |-> "undefined"]

EmptyArray == [t |-> "array", s |-> ""]

EmptyEnv == [k \in {} |-> Undefined]

Obj(m) == [t |-> "object", s |-> "[object Object]", m |-> m]

Arr(m, s) == [t |-> "array", s |-> s, m |-> m]

\* A Promise as the engine sees it: no own enumerable property; `settles`
\* is how it ends, which the synchronous engine never observes.
PromiseOf(settles, value) ==
  [t |-> "promise", s |-> "[object Promise]", settles |-> settles, value |-> value]

\* ToBoolean
Truthy(v) ==
  CASE v.t = "string" -> v.s # ""
    [] v.t = "number" -> v.s \notin {"0", "NaN"}
    [] v.t = "boolean" -> v.s = "true"
    [] v.t \in {"null", "undefined"} -> FALSE
    [] OTHER -> TRUE

\* typeof v === "object" (null, arrays and promises included)
TypeofObject(v) == v.t \in {"object", "array", "null", "promise"}

\* env[k]: a property read; a missing key reads as undefined
Get(env, k) == IF k \in DOMAIN env THEN env[k] ELSE Undefined

\* The own enumerable properties Object.assign copies from a source
OwnProps(v) == IF "m" \in DOMAIN v THEN v.m ELSE EmptyEnv

\* Object.assign with the target's entries kept on a shared key
ObjectAssignFirstWins(target, source) == target @@ source

\* Object.assign(target, source) on the property maps: the source wins
ObjectAssign(target, source) == source @@ target

\* outputs[key] = value
SetKey(outputs, key, value) == (key :> value) @@ outputs

---------------------------------------------------------------------------
(* Programs.  Routines holds every routine the model runs; a program is one *)
(* of the routine tables of Tables (all of Routines, or a part of it) with  *)
(* an entry name `main` drawn from MainNames, and each initial state is one *)
(* program.  A string reference of a define is kept split into the name and *)
(* its trailing "?" mark; a user_msg template is kept split into literal    *)
(* text and ${name} placeholders.                                           *)

Ref(name) == [kind |-> "string", name |-> name, mark |-> ""]

OptRef(name) == [kind |-> "string", name |-> name, mark |-> "?"]

Lit(type, value, optional) ==
  [kind |-> "object", type |-> type, value |-> value, optional |-> optional]

\* A spec that is neither a string nor an object ("is_morning": true)
BoolSpec == [kind |-> "boolean"]

\* A null spec: typeof null is "object", and null has no properties to read
NullSpec == [kind |-> "null"]

Text(s) == [lit |-> s]

Hole(name) == [var |-> name]

Routines ==
  [ \* src/src/examples/refinement_program.json
    refine |-> [type |-> "prompt",
                dev_msg |-> "You are refining text.",
                user_msg |-> <<Text("Current text: "), Hole("text")>>,
                outputs |-> [text |-> "string", is_complete |-> "boolean"]],
    if_loop |-> [type |-> "if", condition |-> "is_complete",
                 then |-> "finished", else |-> "cycle"],
    finished |-> [type |-> "define", outputs |-> [final_text |-> Ref("text")]],
    cycle |-> [type |-> "compose", routines |-> <<"refine", "if_loop">>],
    \* after src/src/__tests__/interpreter.test.ts (input_var renamed x)
    test_define |-> [type |-> "define",
                     outputs |-> [required |-> Ref("x"), optional |-> OptRef("missing_var")]],
    test_define_lit |-> [type |-> "define",
                         outputs |-> [required |-> Lit("string", Str("test"), FALSE),
                                      optional |-> Lit("string", Undefined, TRUE)]],
    bad_routine |-> [type |-> "invalid_type"],
    \* further define routines
    keep_x |-> [type |-> "define", passthrough |-> <<"x">>,
                outputs |-> [y |-> Lit("string", Str("b"), FALSE)]],
    drop_x |-> [type |-> "define", outputs |-> [y |-> Ref("x")]],
    shadow |-> [type |-> "define", passthrough |-> <<"x", "c">>,
                outputs |-> [x |-> OptRef("c"),
                             c |-> Lit("string", Undefined, TRUE),
                             y |-> Ref("x"),
                             z |-> Lit("number", Str("not a number"), FALSE),
                             w |-> Lit("number", Num("0"), TRUE),
                             u |-> Lit("string", Undefined, FALSE),
                             v |-> BoolSpec]],
    define_self |-> [type |-> "define", passthrough |-> <<"o">>,
                     outputs |-> [a |-> Lit("string", Str("v"), FALSE),
                                  b |-> Ref("a"),
                                  o |-> OptRef("a"),
                                  x |-> Ref("b")]],
    define_null |-> [type |-> "define", passthrough |-> <<"x">>,
                     outputs |-> [y |-> OptRef("x"), n |-> NullSpec]],
    \* prompt routines
    refine_pt |-> [type |-> "prompt", passthrough |-> <<"text", "x">>,
                   dev_msg |-> "Refine ${text}",
                   user_msg |-> <<Text("x="), Hole("x"), Text(" c="), Hole("c")>>,
                   outputs |-> [text |-> "string"]],
    bad_prompt |-> [type |-> "prompt", dev_msg |-> "d", user_msg |-> <<Text("u")>>],
    \* code routines
    code_obj |-> [type |-> "code", passthrough |-> <<"c">>, code |-> "{'y': input.x}"],
    code_num |-> [type |-> "code", passthrough |-> <<"x">>, code |-> "42"],
    code_null |-> [type |-> "code", code |-> "null"],
    code_arr |-> [type |-> "code", passthrough |-> <<"x">>, code |-> "[1, 2]"],
    code_throw |-> [type |-> "code", passthrough |-> <<"x">>, code |-> "missing_fn()"],
    code_throw_null |-> [type |-> "code", code |-> "(() => { throw null })()"],
    code_empty |-> [type |-> "code"],
    code_mut |-> [type |-> "code", passthrough |-> <<"x">>,
                  code |-> "(input.x = 'm', {'y': input.x})"],
    \* if routines
    branch |-> [type |-> "if", passthrough |-> <<"x", "c">>, condition |-> "c",
                then |-> "keep_x", else |-> "drop_x"],
    branch_over |-> [type |-> "if", passthrough |-> <<"x", "text">>, condition |-> "c",
                     then |-> "shadow", else |-> "code_obj"],
    if_no_else |-> [type |-> "if", condition |-> "c", then |-> "keep_x"],
    if_no_then |-> [type |-> "if", condition |-> "c", else |-> "code_num"],
    if_bad_else |-> [type |-> "if", condition |-> "c", then |-> "keep_x", else |-> "nowhere"],
    \* compose routines
    pipe |-> [type |-> "compose", routines |-> <<"drop_x", "keep_x">>],
    pipe_pt |-> [type |-> "compose", passthrough |-> <<"x">>,
                 routines |-> <<"keep_x", "code_obj", "drop_x">>],
    nested |-> [type |-> "compose", routines |-> <<"branch", "shadow">>],
    pipe_missing |-> [type |-> "compose", routines |-> <<"keep_x", "nowhere", "drop_x">>],
    pipe_prompt |-> [type |-> "compose", routines |-> <<"bad_prompt", "keep_x">>],
    loop |-> [type |-> "compose", routines |-> <<"loop">>],
    empty |-> [type |-> "compose", routines |-> <<>>],
    pipe_nolist |-> [type |-> "compose"],
    empty_pt |-> [type |-> "compose", passthrough |-> <<"x">>, routines |-> <<>>],
    pipe_proto |-> [type |-> "compose", routines |-> <<"keep_x", "toString">>],
    pipe_self |-> [type |-> "compose", routines |-> <<"keep_x", "define_self">>],
    pipe_mut |-> [type |-> "compose", routines |-> <<"keep_x", "code_mut", "drop_x">>],
    \* join routines
    fan |-> [type |-> "join", routines |-> <<"keep_x", "drop_x">>],
    fan_pt |-> [type |-> "join", passthrough |-> <<"c">>,
                routines |-> <<"drop_x", "keep_x", "code_arr">>],
    fan_deep |-> [type |-> "join", routines |-> <<"pipe", "branch", "refine_pt">>],
    fan_missing |-> [type |-> "join", routines |-> <<"keep_x", "nowhere", "drop_x">>],
    fan_prompt |-> [type |-> "join", routines |-> <<"refine", "keep_x">>],
    fan_nolist |-> [type |-> "join", passthrough |-> <<"x">>],
    fan_mut |-> [type |-> "join", routines |-> <<"code_mut", "drop_x">>]
  ]

\* The names every object inherits from Object.prototype (one stands for
\* all): `name in obj` holds for them and obj[name] is a native function
ObjectPrototypeNames == {"toString"}

NativeFunction == [native |-> "function"]

\* The entry names tried: every routine, a name that is not in the table,
\* an inherited name, and "" for a program without `main`.
MainNames == DOMAIN Routines \cup ObjectPrototypeNames \cup {"nowhere", ""}

\* The routine mappings tried, as the sets of names they hold: the whole
\* table, the refinement program, a mapping of well-formed routines closed
\* under its references, one whose define reads a name no define produces,
\* and one whose compose names an inherited property.
Tables ==
  {DOMAIN Routines,
   {"refine", "if_loop", "finished", "cycle"},
   {"keep_x", "drop_x", "shadow", "code_obj", "branch", "pipe", "nested", "fan",
    "fan_deep", "refine_pt", "test_define_lit", "loop"},
   {"keep_x", "drop_x", "pipe"},
   {"keep_x", "pipe_proto"},
   {"keep_x", "define_self", "pipe_self"}}

Programs ==
  {[routines |-> [n \in T |-> Routines[n]], main |-> m] : T \in Tables, m \in MainNames}

\* The values the condition variable c takes in an initial environment
CondValues ==
  {Num("0"), Num("1"), Num("NaN"), Str(""), Str("a"), Str("0"),
   Bool(FALSE), Bool(TRUE), Null, Undefined, EmptyArray}

XValues == {Str("a"), Undefined}

\* The initial environments tried: x and c each absent or present, and the
\* refinement test's {text: "start"}.
InitialEnvs ==
  {[k \in {"x", "c"} |-> IF k = "x" THEN x ELSE c] : x \in XValues, c \in CondValues}
    \cup {[k \in {"x"} |-> x] : x \in XValues}
    \cup {[k \in {"c"} |-> c] : c \in CondValues}
    \cup {EmptyEnv, [text |-> Str("start")]}

LLMServices == {"DefaultLLMService", "MockLLMService", "O1LLMService", "SyncStub"}

---------------------------------------------------------------------------
(* The helpers and the leaf handlers, as functions of the routine and the   *)
(* environment.                                                             *)

RECURSIVE Substitute(_, _)
\* template.replace(/\$\{(\w+)\}/g, ...): each placeholder becomes
\* String(env[name]), or "" when env[name] is undefined
Substitute(template, env) ==
  IF template = <<>> THEN ""
  ELSE LET seg == Head(template)
           piece == IF "var" \in DOMAIN seg
                    THEN (IF Get(env, seg.var) # Undefined THEN Get(env, seg.var).s ELSE "")
                    ELSE seg.lit
       IN piece \o Substitute(Tail(template), env)

SeqRange(q) == {q[i] : i \in DOMAIN q}

\* The passthrough step left out
HandleRoutineNone(routine, env) == EmptyEnv

\* handleRoutine: the outputs mapping after the passthrough step, from {}
HandleRoutine(routine, env) ==
  IF "passthrough" \in DOMAIN routine
  THEN [k \in SeqRange(routine.passthrough) \cap DOMAIN env |-> env[k]]
  ELSE EmptyEnv

Returned(v) == [kind |-> "return", value |-> v]

Thrown(message) == [kind |-> "throw", message |-> message]

\* DefaultLLMService.callLLM: Object.entries(outputs) throws on undefined
DefaultCallLLM(userMsg, routine) ==
  IF "outputs" \in DOMAIN routine
  THEN {Returned(Obj([k \in DOMAIN routine.outputs |->
                        Str("simulated_" \o k \o "_response_based_on_" \o userMsg)]))}
  ELSE {Thrown("Cannot convert undefined or null to object")}

\* The two answers of the refinement test's stub, over the names the
\* routine asks for
Answer(routine, done) ==
  LET names == IF "outputs" \in DOMAIN routine THEN DOMAIN routine.outputs ELSE {}
  IN Obj([k \in names |->
            IF routine.outputs[k] = "boolean" THEN Bool(done)
            ELSE Str(IF done THEN "final version" ELSE "intermediate version")])

\* MockLLMService.callLLM of the refinement test, `count` being callCount
\* after the increment: an async method, so the caller gets a Promise of the
\* mapping, never the mapping
MockCallLLM(count) ==
  {Returned(PromiseOf("fulfilled",
                      Obj([text |-> Str(IF count >= 2 THEN "final version"
                                        ELSE "intermediate version"),
                           is_complete |-> Bool(count >= 2)])))}

\* O1LLMService.callLLM: async too; the request may fail later
O1CallLLM(routine) ==
  {Returned(PromiseOf("fulfilled", Answer(routine, TRUE))),
   Returned(PromiseOf("rejected", Str("No function call in response")))}

\* An LLMService of the synchronous interface: it answers with a mapping
\* over the requested names, or throws
SyncCallLLM(routine) ==
  {Returned(Answer(routine, TRUE)), Returned(Answer(routine, FALSE)),
   Thrown("service unavailable")}

\* this.llmService.callLLM(devMsg, userMsg, routine.outputs): the outcomes
CallLLM(service, count, userMsg, routine) ==
  CASE service = "DefaultLLMService" -> DefaultCallLLM(userMsg, routine)
    [] service = "MockLLMService" -> MockCallLLM(count)
    [] service = "O1LLMService" -> O1CallLLM(routine)
    [] OTHER -> SyncCallLLM(routine)

\* Whether the call has completed when callLLM hands its result back: a
\* synchronous service has answered or thrown, and the stub's async method
\* has no await in it; the request O1LLMService awaits is still in flight
CompletesAtOnce(service, answer) ==
  \/ answer.kind = "throw"
  \/ answer.value.t # "promise"
  \/ service = "MockLLMService"

\* handlePrompt with the passthrough entries winning over the service's
HandlePromptPassthroughWins(routine, env, answer) ==
  ObjectAssignFirstWins(HandleRoutine(routine, env), OwnProps(answer))

\* handlePrompt after the service returned `answer`: the outputs
HandlePrompt(routine, env, answer) ==
  ObjectAssign(HandleRoutine(routine, env), OwnProps(answer))

\* new Function('input', `return ${codeStr};`)(env) for the expressions of
\* the routine table: what it returns or throws
EvalCode(codeStr, env) ==
  CASE codeStr = "{'y': input.x}" -> Returned(Obj([y |-> Get(env, "x")]))
    [] codeStr = "(input.x = 'm', {'y': input.x})" -> Returned(Obj([y |-> Str("m")]))
    [] codeStr = "42" -> Returned(Num("42"))
    [] codeStr = "null" -> Returned(Null)
    [] codeStr = "[1, 2]" -> Returned(Arr(("0" :> Num("1")) @@ ("1" :> Num("2")), "1,2"))
    [] codeStr = "" -> Returned(Undefined)
    [] codeStr = "missing_fn()" ->
         [kind |-> "throw", value |-> [t |-> "error", s |-> "ReferenceError",
                                       message |-> Str("missing_fn is not defined")]]
    [] OTHER -> [kind |-> "throw", value |-> Null]

\* func(env) receives the environment object itself: the properties the
\* expression assigns to `input` are written to that object
CodeWrites(codeStr) ==
  IF codeStr = "(input.x = 'm', {'y': input.x})" THEN [x |-> Str("m")] ELSE EmptyEnv

\* handleCode: the outputs, or the throw that escapes the catch block
\* (e.message of a thrown null or undefined)
HandleCode(routine, env) ==
  LET outputs == HandleRoutine(routine, env)
      codeStr == IF "code" \in DOMAIN routine THEN routine.code ELSE ""
      r == EvalCode(codeStr, env)
  IN IF r.kind = "return"
     THEN IF ~TypeofObject(r.value) \/ r.value = Null
          THEN Returned(SetKey(outputs, "error", Str("Code did not return an object.")))
          ELSE Returned(ObjectAssign(outputs, OwnProps(r.value)))
     ELSE IF r.value.t \in {"null", "undefined"}
          THEN Thrown("Cannot read properties of " \o r.value.s \o " (reading 'message')")
          ELSE Returned(SetKey(outputs, "error",
                               IF "message" \in DOMAIN r.value THEN r.value.message
                               ELSE Undefined))

\* Whether the define loop writes the key of this spec
DefineEmits(spec, env) ==
  CASE spec.kind = "string" -> spec.name \in DOMAIN env \/ spec.mark # "?"
    [] spec.kind = "object" -> ~(spec.optional /\ spec.value = Undefined)
    [] OTHER -> FALSE

\* The value the define loop writes for this spec
DefineValue(spec, env) ==
  IF spec.kind = "string"
  THEN (IF spec.name \in DOMAIN env THEN env[spec.name] ELSE Undefined)
  ELSE spec.value

\* Whether the define loop reads a property of a null spec
DefineThrows(routine) ==
  "outputs" \in DOMAIN routine
    /\ \E k \in DOMAIN routine.outputs : routine.outputs[k].kind = "null"

DefineError == Thrown("Cannot read properties of null (reading 'optional')")

\* handleDefine with a missing required reference omitted, like an optional one
HandleDefineOmitsMissing(routine, env) ==
  LET outputs == HandleRoutine(routine, env)
      specs == IF "outputs" \in DOMAIN routine THEN routine.outputs ELSE EmptyEnv
      emitted == {k \in DOMAIN specs :
                    DefineEmits(specs[k], env)
                    /\ (specs[k].kind = "string" => specs[k].name \in DOMAIN env)}
  IN IF DefineThrows(routine) THEN DefineError
     ELSE Returned([k \in emitted \cup DOMAIN outputs |->
                      IF k \in emitted THEN DefineValue(specs[k], env) ELSE outputs[k]])

\* handleDefine with the optional flag of a literal ignored
HandleDefineIgnoresOptional(routine, env) ==
  LET outputs == HandleRoutine(routine, env)
      specs == IF "outputs" \in DOMAIN routine THEN routine.outputs ELSE EmptyEnv
      emitted == {k \in DOMAIN specs :
                    specs[k].kind = "object" \/ DefineEmits(specs[k], env)}
  IN IF DefineThrows(routine) THEN DefineError
     ELSE Returned([k \in emitted \cup DOMAIN outputs |->
                      IF k \in emitted THEN DefineValue(specs[k], env) ELSE outputs[k]])

\* handleDefine with a reference resolved against the input environment
\* and, for a name missing there, the literal entries the define emits
HandleDefineSeesOutputs(routine, env) ==
  LET outputs == HandleRoutine(routine, env)
      specs == IF "outputs" \in DOMAIN routine THEN routine.outputs ELSE EmptyEnv
      own == {k \in DOMAIN specs : specs[k].kind = "object" /\ DefineEmits(specs[k], env)}
      seen == env @@ [k \in own |-> specs[k].value]
      emitted == {k \in DOMAIN specs : DefineEmits(specs[k], seen)}
  IN IF DefineThrows(routine) THEN DefineError
     ELSE Returned([k \in emitted \cup DOMAIN outputs |->
                      IF k \in emitted THEN DefineValue(specs[k], seen) ELSE outputs[k]])

\* handleDefine: the passthrough entries, then one write per emitted key
\* (the keys of routine.outputs are distinct, so the loop order is
\* immaterial); a null spec passes the typeof test and spec.optional throws
HandleDefine(routine, env) ==
  LET outputs == HandleRoutine(routine, env)
      specs == IF "outputs" \in DOMAIN routine THEN routine.outputs ELSE EmptyEnv
      emitted == {k \in DOMAIN specs : DefineEmits(specs[k], env)}
  IN IF DefineThrows(routine) THEN DefineError
     ELSE Returned([k \in emitted \cup DOMAIN outputs |->
                      IF k \in emitted THEN DefineValue(specs[k], env) ELSE outputs[k]])

---------------------------------------------------------------------------
(* The validator (src/src/validation.ts).  Each operator yields the set of  *)
(* messages the function can throw first, the empty set when it returns;    *)
(* the set has more than one element only where the message depends on the *)
(* order of the keys of a mapping, which the model does not keep.           *)

\* routine.type
RoutineType(routine) == IF "type" \in DOMAIN routine THEN routine.type ELSE "undefined"

\* `name in obj`, on the own keys of obj: inherited names are in every object
In(name, keys) == name \in keys \cup ObjectPrototypeNames

VALID_TYPES == {"string", "number", "boolean", "string[]", "number[]", "boolean[]"}

\* type.replace(/\?$/, '')
BaseType(type) ==
  IF Len(type) > 0 /\ SubSeq(type, Len(type), Len(type)) = "?"
  THEN SubSeq(type, 1, Len(type) - 1)
  ELSE type

ValidateType(type) ==
  IF BaseType(type) \in VALID_TYPES THEN {} ELSE {"Invalid type: " \o type}

\* !routine[field] for a field that holds text
NoText(routine, field) == field \notin DOMAIN routine \/ routine[field] = ""

\* !routine.user_msg: the template is missing or the empty string
NoTemplate(routine) ==
  \/ "user_msg" \notin DOMAIN routine
  \/ \A i \in DOMAIN routine.user_msg :
       "lit" \in DOMAIN routine.user_msg[i] /\ routine.user_msg[i].lit = ""

ValidatePromptRoutine(routine) ==
  IF NoText(routine, "dev_msg") \/ NoTemplate(routine) \/ "outputs" \notin DOMAIN routine
  THEN {"Prompt routine must have dev_msg, user_msg, and outputs"}
  ELSE IF DOMAIN routine.outputs = {}
  THEN {"Prompt routine must have at least one output"}
  ELSE UNION {ValidateType(routine.outputs[k]) : k \in DOMAIN routine.outputs}

ValidateCodeRoutine(routine) ==
  IF NoText(routine, "code") THEN {"Code routine must have code field"} ELSE {}

\* What the type pass over the entries of a define can throw: a literal's
\* type is validated, and a null spec has no `type` to read
DefineTypeErrors(routine) ==
  UNION {CASE routine.outputs[k].kind = "object" -> ValidateType(routine.outputs[k].type)
           [] routine.outputs[k].kind = "null" ->
                {"Cannot read properties of null (reading 'type')"}
           [] OTHER -> {}
         : k \in DOMAIN routine.outputs}

\* The names that pass collects: the keys whose spec is an object or a string
DefineNames(routine) ==
  {k \in DOMAIN routine.outputs : routine.outputs[k].kind \in {"object", "string"}}

\* validateDefineRoutine, `inputs` being the keys of the inputs argument
ValidateDefineRoutine(routine, inputs) ==
  IF "outputs" \notin DOMAIN routine
  THEN {"Define routine must have outputs object"}
  ELSE IF DefineTypeErrors(routine) # {}
  THEN DefineTypeErrors(routine)
  ELSE {"Input \"" \o routine.outputs[k].name \o "\" not found" :
          k \in {k \in DOMAIN routine.outputs :
                   /\ routine.outputs[k].kind = "string"
                   /\ routine.outputs[k].mark # "?"
                   /\ ~In(routine.outputs[k].name, inputs)
                   /\ ~In(routine.outputs[k].name, DefineNames(routine))}}

ValidateIfRoutine(routine, table) ==
  IF NoText(routine, "condition") \/ NoText(routine, "then") \/ NoText(routine, "else")
  THEN {"If routine must have condition, then, and else fields"}
  ELSE IF ~In(routine.then, DOMAIN table)
  THEN {"Routine \"" \o routine.then \o "\" not found"}
  ELSE IF ~In(routine.else, DOMAIN table)
  THEN {"Routine \"" \o routine.else \o "\" not found"}
  ELSE {}

\* validateComposeRoutine and validateJoinRoutine, which differ in the word
\* their messages start with
ValidateListRoutine(routine, table, word) ==
  LET missing == {i \in DOMAIN routine.routines : ~In(routine.routines[i], DOMAIN table)}
  IN IF "routines" \notin DOMAIN routine
     THEN {word \o " routine must have routines array"}
     ELSE IF routine.routines = <<>>
     THEN {word \o " routine must have at least one routine"}
     ELSE IF missing # {}
     THEN {"Routine \"" \o routine.routines[CHOOSE i \in missing :
                                              \A j \in missing : i <= j] \o "\" not found"}
     ELSE {}

ValidateComposeRoutine(routine, table) == ValidateListRoutine(routine, table, "Compose")

ValidateJoinRoutine(routine, table) == ValidateListRoutine(routine, table, "Join")

ValidateRoutine(routine, table, inputs) ==
  CASE RoutineType(routine) = "prompt" -> ValidatePromptRoutine(routine)
    [] RoutineType(routine) = "code" -> ValidateCodeRoutine(routine)
    [] RoutineType(routine) = "define" -> ValidateDefineRoutine(routine, inputs)
    [] RoutineType(routine) = "if" -> ValidateIfRoutine(routine, table)
    [] RoutineType(routine) = "compose" -> ValidateComposeRoutine(routine, table)
    [] RoutineType(routine) = "join" -> ValidateJoinRoutine(routine, table)
    [] OTHER -> {"Unknown routine type: " \o RoutineType(routine)}

DefineRoutinesOf(table) == {n \in DOMAIN table : RoutineType(table[n]) = "define"}

\* definedOutputs with the literal entries only, the references left out
DefinedLiterals(table) ==
  UNION {{k \in DOMAIN table[n].outputs : table[n].outputs[k].kind = "object"} :
           n \in DefineRoutinesOf(table)}

\* definedOutputs: the names any define routine of the program produces
DefinedOutputs(table) ==
  UNION {DefineNames(table[n]) : n \in DefineRoutinesOf(table)}

\* validateProgram: the checks in the order of the source, each loop over
\* the routines standing for every order of the mapping's keys
ValidateProgram(p) ==
  LET table == p.routines
      noOutputs == {n \in DefineRoutinesOf(table) : "outputs" \notin DOMAIN table[n]}
      typeErrors == UNION {DefineTypeErrors(table[n]) : n \in DefineRoutinesOf(table)}
  IN IF p.main = "" THEN {"Program must have a main routine"}
     ELSE IF ~In(p.main, DOMAIN table)
     THEN {"Main routine \"" \o p.main \o "\" not found in routines"}
     ELSE IF noOutputs # {} THEN {"Define routine must have outputs object"}
     ELSE IF typeErrors # {} THEN typeErrors
     ELSE UNION {ValidateRoutine(table[n], table, DefinedOutputs(table)) :
                   n \in DOMAIN table}

---------------------------------------------------------------------------
(* The interpreter as a state machine *)

NoArg == [routineName |-> "", env |-> EmptyEnv, envId |-> 0]

NoTrace == [routine |-> "", type |-> "", inputs |-> EmptyEnv]

NoRet == [outputs |-> EmptyEnv, trace |-> NoTrace]

\* The state after `new Interpreter(program, llmService)`
Init ==
  /\ program \in Programs
  /\ llmService \in LLMServices
  /\ validation = "unchecked"
  /\ pc = "idle"
  /\ arg = NoArg
  /\ stack = <<>>
  /\ ret = NoRet
  /\ result = <<>>
  /\ error = ""
  /\ callCount = 0
  /\ calls = <<>>
  /\ initialEnv = EmptyEnv
  /\ nextId = 1

\* A throw is turned into data by the nearest handler, as handleCode does
\* for its expression
PropagateCaught(message) ==
  /\ pc' = "return"
  /\ ret' = [outputs |-> [error |-> Str(message)], trace |-> NoTrace]
  /\ error' = message
  /\ UNCHANGED <<stack, arg, result>>

\* A throw out of executeRoutine: no handler catches it, so every active
\* handler and run are abandoned and the caller of run gets the error
Propagate(message) ==
  /\ pc' = "failed"
  /\ error' = message
  /\ stack' = <<>>
  /\ arg' = NoArg
  /\ ret' = NoRet
  /\ UNCHANGED result

\* The {outputs, trace} pair a handler returns
Return(outputs, trace) ==
  /\ pc' = "return"
  /\ ret' = [outputs |-> outputs, trace |-> trace]
  /\ arg' = NoArg

\* A nested call on an engine whose stack holds a single handler
CallShallow(newStack, routineName, env, envId) ==
  IF Len(newStack) > 1
  THEN Propagate("Maximum call stack size exceeded") /\ UNCHANGED <<callCount, calls>>
  ELSE /\ pc' = "call"
       /\ arg' = [routineName |-> routineName, env |-> env, envId |-> envId]
       /\ stack' = newStack
       /\ UNCHANGED <<ret, result, error, callCount, calls>>

\* A nested this.executeRoutine(routineName, env) from a handler whose frame
\* is on top of newStack
Call(newStack, routineName, env, envId) ==
  IF Len(newStack) > MaxDepth
  THEN Propagate("Maximum call stack size exceeded") /\ UNCHANGED <<callCount, calls>>
  ELSE /\ pc' = "call"
       /\ arg' = [routineName |-> routineName, env |-> env, envId |-> envId]
       /\ stack' = newStack
       /\ UNCHANGED <<ret, result, error, callCount, calls>>

routines == program.routines

\* this.routines[routineName]: an own entry, else what the object inherits
RoutineAt(name) == IF name \in DOMAIN routines THEN routines[name] ELSE NativeFunction

\* Whether this.routines[name] is truthy
Known(name) == name \in DOMAIN routines \cup ObjectPrototypeNames

BaseTrace == [routine |-> arg.routineName,
              type |-> RoutineType(RoutineAt(arg.routineName)),
              inputs |-> arg.env]

\* validateProgram(program), called on the program before it is run
Validate ==
  /\ pc = "idle"
  /\ validation = "unchecked"
  /\ validation' \in (IF ValidateProgram(program) = {} THEN {"accepted"}
                      ELSE ValidateProgram(program))
  /\ UNCHANGED <<program, llmService, pc, arg, stack, ret, result, error,
                 callCount, calls, initialEnv, nextId>>

\* run(initialEnv)
Run ==
  /\ pc = "idle"
  /\ \E env \in InitialEnvs :
       /\ initialEnv' = env
       /\ IF program.main = ""
          THEN Propagate("Program is missing a 'main' routine.")
          ELSE /\ pc' = "call"
               /\ arg' = [routineName |-> program.main, env |-> env, envId |-> 0]
               /\ UNCHANGED <<stack, ret, result, error>>
  /\ UNCHANGED <<program, llmService, validation, nextId, callCount, calls>>

\* executeRoutine: the name is not in the routine mapping
RoutineNotFound ==
  /\ pc = "call"
  /\ ~Known(arg.routineName)
  /\ Propagate("Routine '" \o arg.routineName \o "' not found.")
  /\ UNCHANGED <<program, llmService, validation, initialEnv, nextId, callCount, calls>>

\* executeRoutine: the default case of the switch
UnknownRoutineType ==
  /\ pc = "call"
  /\ Known(arg.routineName)
  /\ RoutineType(RoutineAt(arg.routineName))
       \notin {"prompt", "code", "define", "if", "compose", "join"}
  /\ Propagate("Unknown routine type: " \o RoutineType(RoutineAt(arg.routineName)))
  /\ UNCHANGED <<program, llmService, validation, initialEnv, nextId, callCount, calls>>

\* executeRoutine -> handlePrompt
ExecPrompt ==
  /\ pc = "call"
  /\ Known(arg.routineName)
  /\ RoutineType(RoutineAt(arg.routineName)) = "prompt"
  /\ LET routine == RoutineAt(arg.routineName)
         devMsg == IF "dev_msg" \in DOMAIN routine THEN routine.dev_msg ELSE ""
         userMsg == Substitute(IF "user_msg" \in DOMAIN routine THEN routine.user_msg
                               ELSE <<>>, arg.env)
         count == IF llmService = "MockLLMService" THEN callCount + 1 ELSE callCount
     IN \E answer \in CallLLM(llmService, count, userMsg, routine) :
          /\ callCount' = count
          /\ calls' = Append(calls, [routine |-> arg.routineName, dev_msg |-> devMsg,
                                     user_msg |-> userMsg, answer |-> answer,
                                     completed |-> CompletesAtOnce(llmService, answer)])
          /\ IF answer.kind = "throw"
             THEN Propagate(answer.message)
             ELSE /\ Return(HandlePrompt(routine, arg.env, answer.value),
                            [routine |-> arg.routineName, type |-> "prompt",
                             inputs |-> arg.env,
                             llm_call |-> [dev_msg |-> devMsg, user_msg |-> userMsg],
                             outputs |-> HandlePrompt(routine, arg.env, answer.value),
                             oid |-> nextId])
                  /\ UNCHANGED <<stack, result, error>>
  /\ nextId' = nextId + 1
  /\ UNCHANGED <<program, llmService, validation, initialEnv>>

\* An object after the properties `writes` were assigned to the object
\* numbered e: changed if it is that object
Mutate(obj, id, e, writes) == IF id = e THEN ObjectAssign(obj, writes) ELSE obj

RECURSIVE MutTrace(_, _, _)
\* A trace node after that assignment: trace.outputs is the very object
\* the handler returned, and a later step may have received it as its env
MutTrace(t, e, writes) ==
  LET a == [t EXCEPT !.outputs = Mutate(t.outputs, t.oid, e, writes)]
      b == IF "subtraces" \in DOMAIN a
           THEN [a EXCEPT !.subtraces = [j \in DOMAIN a.subtraces |->
                                           MutTrace(a.subtraces[j], e, writes)]]
           ELSE a
  IN IF "subtrace" \in DOMAIN b
     THEN [b EXCEPT !.subtrace = MutTrace(b.subtrace, e, writes)]
     ELSE b

\* An active handler after that assignment: its env and currentEnv refer to
\* objects, and its subtraces hold the outputs objects of finished steps
MutFrame(frame, e, writes) ==
  LET a == [frame EXCEPT !.env = Mutate(frame.env, frame.envId, e, writes)]
      b == IF "currentEnv" \in DOMAIN a
           THEN [a EXCEPT !.currentEnv = Mutate(a.currentEnv, a.currentEnvId, e, writes)]
           ELSE a
  IN IF "subtraces" \in DOMAIN b
     THEN [b EXCEPT !.subtraces = [j \in DOMAIN b.subtraces |->
                                     MutTrace(b.subtraces[j], e, writes)]]
     ELSE b

MutStack(frames, e, writes) ==
  IF writes = EmptyEnv THEN frames
  ELSE [i \in DOMAIN frames |-> MutFrame(frames[i], e, writes)]

\* executeRoutine -> handleCode
ExecCode ==
  /\ pc = "call"
  /\ Known(arg.routineName)
  /\ RoutineType(RoutineAt(arg.routineName)) = "code"
  /\ LET routine == RoutineAt(arg.routineName)
         r == HandleCode(routine, arg.env)
         writes == CodeWrites(IF "code" \in DOMAIN routine THEN routine.code ELSE "")
     IN /\ initialEnv' = Mutate(initialEnv, 0, arg.envId, writes)
        /\ IF r.kind = "throw"
           THEN Propagate(r.message)
           ELSE /\ Return(r.value, [routine |-> arg.routineName, type |-> "code",
                                    inputs |-> arg.env, outputs |-> r.value,
                                    oid |-> nextId])
                /\ stack' = MutStack(stack, arg.envId, writes)
                /\ UNCHANGED <<result, error>>
  /\ nextId' = nextId + 1
  /\ UNCHANGED <<program, llmService, validation, callCount, calls>>

\* executeRoutine -> handleDefine
ExecDefine ==
  /\ pc = "call"
  /\ Known(arg.routineName)
  /\ RoutineType(RoutineAt(arg.routineName)) = "define"
  /\ LET r == HandleDefine(RoutineAt(arg.routineName), arg.env)
     IN IF r.kind = "throw"
        THEN Propagate(r.message)
        ELSE /\ Return(r.value, [routine |-> arg.routineName, type |-> "define",
                                 inputs |-> arg.env, outputs |-> r.value,
                                 oid |-> nextId])
             /\ UNCHANGED <<stack, result, error>>
  /\ nextId' = nextId + 1
  /\ UNCHANGED <<program, llmService, validation, initialEnv, callCount, calls>>

\* handleIf with the branch chosen by presence: any value that is set
\* and is not 0, "" or false selects `then`
IfBranchByPresence(routine, env) ==
  IF routine.condition \in DOMAIN env
     /\ env[routine.condition] \notin {Num("0"), Str(""), Bool(FALSE)}
  THEN "then" ELSE "else"

\* handleIf: condValue ? "then" : "else"
IfBranch(routine, env) ==
  IF Truthy(Get(env, routine.condition)) THEN "then" ELSE "else"

\* routine[branch], were a name required of both branches
BranchRoutineNameBoth(routine, branch) ==
  IF "then" \in DOMAIN routine /\ "else" \in DOMAIN routine THEN routine[branch] ELSE ""

\* routine[branch], undefined when the field is missing
BranchRoutineName(routine, branch) ==
  IF branch \in DOMAIN routine THEN routine[branch] ELSE ""

\* executeRoutine -> handleIf, up to the recursive call
ExecIf ==
  /\ pc = "call"
  /\ Known(arg.routineName)
  /\ RoutineType(RoutineAt(arg.routineName)) = "if"
  /\ LET routine == RoutineAt(arg.routineName)
         branch == IfBranch(routine, arg.env)
         branchRoutineName == BranchRoutineName(routine, branch)
         frame == [handler |-> "if", routine |-> arg.routineName, env |-> arg.env,
                   envId |-> arg.envId,
                   outputs |-> HandleRoutine(routine, arg.env), outputsId |-> nextId,
                   branch |-> branch, trace |-> BaseTrace]
     IN IF branchRoutineName = ""
        THEN Propagate("'if' routine missing '" \o branch \o "' branch.")
             /\ UNCHANGED <<callCount, calls>>
        ELSE Call(Append(stack, frame), branchRoutineName, arg.env, arg.envId)
  /\ nextId' = nextId + 1
  /\ UNCHANGED <<program, llmService, validation, initialEnv>>

Top == stack[Len(stack)]

Pop == SubSeq(stack, 1, Len(stack) - 1)

\* The merge of handleIf with the passthrough entry winning a shared key
IfMergePassthroughWins(outputs, branchOutputs) ==
  ObjectAssignFirstWins(outputs, branchOutputs)

\* handleIf: Object.assign(outputs, branchOutputs)
IfMerge(outputs, branchOutputs) == ObjectAssign(outputs, branchOutputs)

\* handleIf after the recursive call returned
IfReturn ==
  /\ pc = "return"
  /\ stack # <<>>
  /\ Top.handler = "if"
  /\ LET outputs == IfMerge(Top.outputs, ret.outputs)
     IN Return(outputs, [routine |-> Top.trace.routine, type |-> "if",
                         inputs |-> Top.trace.inputs, branch_taken |-> Top.branch,
                         subtrace |-> ret.trace, outputs |-> outputs,
                         oid |-> Top.outputsId])
  /\ stack' = Pop
  /\ UNCHANGED <<program, llmService, validation, initialEnv, nextId, result, error, callCount, calls>>

\* The outputs of handleCompose, were its passthrough list applied first
ComposeOutputsWithPassthrough(routine, env, currentEnv) ==
  ObjectAssign(HandleRoutine(routine, env), currentEnv)

\* handleCompose: return { outputs: currentEnv, trace }
ComposeOutputs(routine, env, currentEnv) == currentEnv

\* executeRoutine -> handleCompose, up to the first recursive call; a
\* routine list without elements returns the input environment itself, and
\* for...of over a missing list throws
ExecCompose ==
  /\ pc = "call"
  /\ Known(arg.routineName)
  /\ RoutineType(RoutineAt(arg.routineName)) = "compose"
  /\ LET routine == RoutineAt(arg.routineName)
         frame == [handler |-> "compose", routine |-> arg.routineName, env |-> arg.env,
                   envId |-> arg.envId, currentEnv |-> arg.env,
                   currentEnvId |-> arg.envId, subtraces |-> <<>>, i |-> 1,
                   trace |-> BaseTrace]
     IN IF "routines" \notin DOMAIN routine
        THEN Propagate("routines is not iterable") /\ UNCHANGED <<callCount, calls>>
        ELSE IF routine.routines = <<>>
        THEN /\ Return(ComposeOutputs(routine, arg.env, arg.env),
                       [routine |-> arg.routineName, type |-> "compose",
                        inputs |-> arg.env, subtraces |-> <<>>,
                        outputs |-> ComposeOutputs(routine, arg.env, arg.env),
                        oid |-> arg.envId])
             /\ UNCHANGED <<stack, result, error, callCount, calls>>
        ELSE Call(Append(stack, frame), routine.routines[1], arg.env, arg.envId)
  /\ UNCHANGED <<program, llmService, validation, initialEnv, nextId>>

\* The environment handleCompose hands to the next step, were the step's
\* outputs merged into the previous environment
ComposeNextEnvMerged(currentEnv, out) == ObjectAssign(currentEnv, out)

\* handleCompose: currentEnv = out
ComposeNextEnv(currentEnv, out) == out

\* handleCompose after a step returned: the next step, or the return
ComposeReturn ==
  /\ pc = "return"
  /\ stack # <<>>
  /\ Top.handler = "compose"
  /\ LET routine == routines[Top.routine]
         currentEnv == ComposeNextEnv(Top.currentEnv, ret.outputs)
         subtraces == Append(Top.subtraces, ret.trace)
         frame == [Top EXCEPT !.currentEnv = currentEnv,
                              !.currentEnvId = ret.trace.oid,
                              !.subtraces = subtraces, !.i = Top.i + 1]
     IN IF Top.i < Len(routine.routines)
        THEN Call(Append(Pop, frame), routine.routines[Top.i + 1], currentEnv,
                  ret.trace.oid)
        ELSE /\ Return(ComposeOutputs(routine, Top.env, currentEnv),
                       [routine |-> Top.trace.routine, type |-> "compose",
                        inputs |-> Top.trace.inputs, subtraces |-> subtraces,
                        outputs |-> ComposeOutputs(routine, Top.env, currentEnv),
                        oid |-> ret.trace.oid])
             /\ stack' = Pop
             /\ UNCHANGED <<result, error, callCount, calls>>
  /\ UNCHANGED <<program, llmService, validation, initialEnv, nextId>>

\* executeRoutine -> handleJoin, up to the first recursive call
ExecJoin ==
  /\ pc = "call"
  /\ Known(arg.routineName)
  /\ RoutineType(RoutineAt(arg.routineName)) = "join"
  /\ LET routine == RoutineAt(arg.routineName)
         frame == [handler |-> "join", routine |-> arg.routineName, env |-> arg.env,
                   envId |-> arg.envId, outputs |-> EmptyEnv, outputsId |-> nextId,
                   subtraces |-> <<>>, i |-> 1, trace |-> BaseTrace]
     IN IF "routines" \notin DOMAIN routine
        THEN Propagate("routines is not iterable") /\ UNCHANGED <<callCount, calls>>
        ELSE IF routine.routines = <<>>
        THEN /\ Return(EmptyEnv, [routine |-> arg.routineName, type |-> "join",
                                  inputs |-> arg.env, subtraces |-> <<>>,
                                  outputs |-> EmptyEnv, oid |-> nextId])
             /\ UNCHANGED <<stack, result, error, callCount, calls>>
        ELSE Call(Append(stack, frame), routine.routines[1], arg.env, arg.envId)
  /\ nextId' = nextId + 1
  /\ UNCHANGED <<program, llmService, validation, initialEnv>>

\* The merge of handleJoin with the earlier branch winning a shared key
JoinMergeFirstWins(outputs, out) == ObjectAssignFirstWins(outputs, out)

\* handleJoin: Object.assign(outputs, out)
JoinMerge(outputs, out) == ObjectAssign(outputs, out)

\* The environment of the next branch, were the branches chained
JoinBranchEnvChained(env, out) == out

\* handleJoin: every branch is called with env
JoinBranchEnv(env, out) == env

\* handleJoin after a branch returned: the next branch, or the return
JoinReturn ==
  /\ pc = "return"
  /\ stack # <<>>
  /\ Top.handler = "join"
  /\ LET routine == routines[Top.routine]
         outputs == JoinMerge(Top.outputs, ret.outputs)
         subtraces == Append(Top.subtraces, ret.trace)
         frame == [Top EXCEPT !.outputs = outputs, !.subtraces = subtraces,
                              !.i = Top.i + 1]
     IN IF Top.i < Len(routine.routines)
        THEN Call(Append(Pop, frame), routine.routines[Top.i + 1],
                  JoinBranchEnv(Top.env, ret.outputs), Top.envId)
        ELSE /\ Return(outputs, [routine |-> Top.trace.routine, type |-> "join",
                                 inputs |-> Top.trace.inputs, subtraces |-> subtraces,
                                 outputs |-> outputs, oid |-> Top.outputsId])
             /\ stack' = Pop
             /\ UNCHANGED <<result, error, callCount, calls>>
  /\ UNCHANGED <<program, llmService, validation, initialEnv, nextId>>

\* run after executeRoutine returned: {program, outputs, trace}
RunReturn ==
  /\ pc = "return"
  /\ stack = <<>>
  /\ pc' = "done"
  /\ result' = <<[program |-> program, outputs |-> ret.outputs, trace |-> ret.trace]>>
  /\ ret' = NoRet
  /\ UNCHANGED <<program, llmService, validation, initialEnv, nextId, arg, stack, error, callCount, calls>>

\* A request in flight comes back.  run is synchronous, so nothing can
\* settle before it has returned or thrown.
SettleCall ==
  /\ pc \in {"done", "failed"}
  /\ \E i \in DOMAIN calls :
       /\ ~calls[i].completed
       /\ calls' = [calls EXCEPT ![i].completed = TRUE]
  /\ UNCHANGED <<program, llmService, validation, initialEnv, nextId, pc, arg, stack, ret, result, error,
                 callCount>>

Next ==
  \/ Validate
  \/ Run
  \/ RoutineNotFound
  \/ UnknownRoutineType
  \/ ExecPrompt
  \/ ExecCode
  \/ ExecDefine
  \/ ExecIf
  \/ IfReturn
  \/ ExecCompose
  \/ ComposeReturn
  \/ ExecJoin
  \/ JoinReturn
  \/ RunReturn
  \/ SettleCall

Spec == Init /\ [][Next]_vars

\* The steps run takes between its call and its return or throw
RunStep ==
  \/ RoutineNotFound
  \/ UnknownRoutineType
  \/ ExecPrompt
  \/ ExecCode
  \/ ExecDefine
  \/ ExecIf
  \/ IfReturn
  \/ ExecCompose
  \/ ComposeReturn
  \/ ExecJoin
  \/ JoinReturn
  \/ RunReturn

\* run is synchronous code on one thread: once called it keeps executing,
\* every service call and expression evaluation of the model returning
LiveSpec == Init /\ [][Next]_vars /\ WF_vars(RunStep)

---------------------------------------------------------------------------
(* Properties.  `ret` at pc = "return" is the {outputs, trace} pair of the   *)
(* executeRoutine call that has just returned, so a predicate on it speaks  *)
(* of every call that returns; a predicate on `arg` at pc = "call" speaks   *)
(* of every call that is made.                                              *)

Returning(type) == pc = "return" /\ ret.trace.type = type

Calling(handler) == pc = "call" /\ stack # <<>> /\ Top.handler = handler

PassthroughNames(routine) ==
  IF "passthrough" \in DOMAIN routine THEN SeqRange(routine.passthrough) ELSE {}

\* C1: a compose over steps r1..rn (n >= 1) on environment E calls r1 on E
\* and each later step on exactly the outputs of the step before it (that
\* very object, not merged with anything earlier), one child trace per step
\* in order, and its outputs are the last step's outputs; so a key the
\* outputs of step i lack is not in the input of step i+1, and a key the
\* last step's outputs lack is not in the compose's outputs.
ComposeThreadsOutputs ==
  /\ Calling("compose") =>
       LET names == routines[Top.routine].routines
           done == Len(Top.subtraces)
       IN /\ done < Len(names)
          /\ arg.routineName = names[done + 1]
          /\ done = 0 => /\ arg.env = Top.env
                         /\ arg.envId = Top.envId
                         /\ arg.env = Top.trace.inputs
          /\ done > 0 => /\ arg.env = Top.subtraces[done].outputs
                         /\ arg.envId = Top.subtraces[done].oid
                         /\ \A k \in DOMAIN Top.trace.inputs :
                              k \notin DOMAIN Top.subtraces[done].outputs
                                => k \notin DOMAIN arg.env
  /\ Returning("compose") /\ routines[ret.trace.routine].routines # <<>> =>
       LET t == ret.trace
           names == routines[t.routine].routines
           n == Len(names)
       IN /\ Len(t.subtraces) = n
          /\ \A i \in 1..n : t.subtraces[i].routine = names[i]
          /\ t.subtraces[1].inputs = t.inputs
          /\ ret.outputs = t.subtraces[n].outputs
          /\ t.oid = t.subtraces[n].oid
          /\ t.outputs = ret.outputs
          /\ \A k \in DOMAIN t.inputs :
               k \notin DOMAIN t.subtraces[n].outputs => k \notin DOMAIN ret.outputs

\* A compose of at least two steps has returned, and a key of its input that
\* its first step did not reproduce is gone from the outputs
ComposeDropsKey ==
  /\ Returning("compose")
  /\ Len(ret.trace.subtraces) >= 2
  /\ \E k \in DOMAIN ret.trace.inputs :
       /\ k \notin DOMAIN ret.trace.subtraces[1].outputs
       /\ k \notin DOMAIN ret.outputs

\* The last branch, among the first n, whose outputs hold key k
LastWith(subtraces, n, k) ==
  CHOOSE i \in 1..n :
    /\ k \in DOMAIN subtraces[i].outputs
    /\ \A j \in (i + 1)..n : k \notin DOMAIN subtraces[j].outputs

OwnKeys ==
  LET t == ret.trace
      routine == routines[t.routine]
  IN CASE t.type = "prompt" -> DOMAIN OwnProps(calls[Len(calls)].answer.value)
       [] t.type = "code" ->
            LET r == EvalCode(IF "code" \in DOMAIN routine THEN routine.code ELSE "",
                              t.inputs)
            IN IF r.kind = "return" /\ r.value.t \in {"object", "array"}
               THEN DOMAIN OwnProps(r.value) ELSE {"error"}
       [] t.type = "define" ->
            {k \in DOMAIN routine.outputs : DefineEmits(routine.outputs[k], t.inputs)}
       [] t.type = "if" -> DOMAIN t.subtrace.outputs
       [] OTHER -> UNION {DOMAIN t.subtraces[i].outputs : i \in DOMAIN t.subtraces}

PassthroughKept ==
  \A k \in PassthroughNames(routines[ret.trace.routine]) \cap DOMAIN ret.trace.inputs :
    /\ k \in DOMAIN ret.outputs
    /\ k \notin OwnKeys => ret.outputs[k] = ret.trace.inputs[k]

\* C3 as claimed: for a routine of any of the six kinds, every passthrough
\* name present in the input environment is in the outputs, with its input
\* value unless the routine's own computation wrote the key.
PassthroughKeptAllKinds ==
  pc = "return" => PassthroughKept

\* C3 as amended: the same for the kinds prompt, code, define and if, the
\* kinds whose handlers apply the passthrough list.
PassthroughKeptLeafAndIf ==
  pc = "return" /\ ret.trace.type \in {"prompt", "code", "define", "if"}
    => PassthroughKept

\* An if has returned whose passthrough copied a key the branch did not write
PassthroughCopied ==
  /\ Returning("if")
  /\ \E k \in PassthroughNames(routines[ret.trace.routine]) \cap DOMAIN ret.trace.inputs :
       /\ k \notin OwnKeys
       /\ ret.outputs[k] = ret.trace.inputs[k]

\* Whether the expression of the code routine that has just returned threw
\* or evaluated to something other than a key-value mapping
CodeFailed ==
  LET routine == routines[ret.trace.routine]
      r == EvalCode(IF "code" \in DOMAIN routine THEN routine.code ELSE "",
                    ret.trace.inputs)
  IN r.kind = "throw" \/ r.value.t # "object"

\* C4: a code routine whose expression throws or evaluates to a scalar,
\* null or an array returns the error key and no key of its own besides it:
\* the outputs hold `error`, and nothing but `error` and (the reading that
\* section 4.2 of the specification allows) the routine's passthrough
\* entries.
CodeFailureYieldsError ==
  Returning("code") /\ CodeFailed =>
    /\ "error" \in DOMAIN ret.outputs
    /\ DOMAIN ret.outputs \subseteq
         {"error"} \cup PassthroughNames(routines[ret.trace.routine])

\* The values that select the else branch, for a key that is present
FalsyValues == {Num("0"), Num("NaN"), Str(""), Bool(FALSE), Null, Undefined}

IfFrames == {i \in DOMAIN stack : stack[i].handler = "if"}

CondName(frame) == routines[frame.routine].condition

\* C5 as claimed, read literally: an if takes the else branch exactly when
\* its condition variable is not set or holds 0, "" or false, and the then
\* branch for any other value that is present, null and undefined included.
IfElseOnlyForZeroEmptyFalseUnset ==
  \A i \in IfFrames :
    stack[i].branch = "else" <=>
      \/ CondName(stack[i]) \notin DOMAIN stack[i].env
      \/ stack[i].env[CondName(stack[i])] \in {Num("0"), Str(""), Bool(FALSE)}

\* C5 as amended: an if takes the else branch exactly when its condition
\* variable is not set or holds 0, NaN, "", false, null or undefined, and the
\* then branch for every other value (an empty array and the string "0"
\* included).
IfElseForFalsyOrUnset ==
  \A i \in IfFrames :
    stack[i].branch = "else" <=>
      \/ CondName(stack[i]) \notin DOMAIN stack[i].env
      \/ stack[i].env[CondName(stack[i])] \in FalsyValues

\* An if took the else branch on a condition variable that is present and
\* holds null
IfElseOnNull ==
  \E i \in IfFrames :
    /\ CondName(stack[i]) \in DOMAIN stack[i].env
    /\ stack[i].env[CondName(stack[i])] = Null
    /\ stack[i].branch = "else"

\* What a define call must return for its string entries
DefineRefsResolved(routine, env, out) ==
  \A k \in DOMAIN routine.outputs :
    LET spec == routine.outputs[k]
    IN spec.kind = "string" =>
         /\ spec.name \in DOMAIN env => k \in DOMAIN out /\ out[k] = env[spec.name]
         /\ spec.name \notin DOMAIN env /\ spec.mark = "" =>
              k \in DOMAIN out /\ out[k] = Undefined
         /\ spec.name \notin DOMAIN env /\ spec.mark = "?" /\ k \in DOMAIN out =>
              /\ k \in PassthroughNames(routine) \cap DOMAIN env
              /\ out[k] = env[k]

\* A call of a define routine whose entries are references and literals
IsDefineCall ==
  /\ pc = "call"
  /\ Known(arg.routineName)
  /\ RoutineType(RoutineAt(arg.routineName)) = "define"
  /\ ~DefineThrows(RoutineAt(arg.routineName))

\* C6: a define entry that is a variable reference copies the value of the
\* referenced name when the input environment has it; when it is missing
\* and the reference is not optional the key is present and holds
\* undefined; when it is missing and the reference is optional the entry
\* writes nothing (the key is in the outputs only as the routine's own
\* passthrough copy of a same-named input); and a define call whose entries
\* are references and literals returns, it never throws.
DefineReferenceResolution ==
  [][IsDefineCall =>
       /\ pc' = "return"
       /\ ret'.trace.routine = arg.routineName
       /\ DefineRefsResolved(RoutineAt(arg.routineName), arg.env, ret'.outputs)]_vars

\* A define has returned with a required reference to a missing name
\* (present, undefined) next to an optional one (omitted)
DefineMissingBoth ==
  /\ Returning("define")
  /\ \E k1, k2 \in DOMAIN routines[ret.trace.routine].outputs :
       LET s1 == routines[ret.trace.routine].outputs[k1]
           s2 == routines[ret.trace.routine].outputs[k2]
       IN /\ s1.kind = "string" /\ s1.mark = "" /\ s1.name \notin DOMAIN ret.trace.inputs
          /\ k1 \in DOMAIN ret.outputs /\ ret.outputs[k1] = Undefined
          /\ s2.kind = "string" /\ s2.mark = "?" /\ s2.name \notin DOMAIN ret.trace.inputs
          /\ k2 \notin DOMAIN ret.outputs

\* C7: a define entry that is a literal {type, value, optional} writes
\* nothing exactly when optional is true and value is undefined (the key is
\* then in the outputs only as the routine's own passthrough copy of a
\* same-named input); in every other case the key holds value, whatever the
\* type tag says.
DefineLiteralResolution ==
  Returning("define") =>
    \A k \in DOMAIN routines[ret.trace.routine].outputs :
      LET routine == routines[ret.trace.routine]
          spec == routine.outputs[k]
      IN spec.kind = "object" =>
           IF spec.optional /\ spec.value = Undefined
           THEN k \in DOMAIN ret.outputs =>
                  /\ k \in PassthroughNames(routine) \cap DOMAIN ret.trace.inputs
                  /\ ret.outputs[k] = ret.trace.inputs[k]
           ELSE k \in DOMAIN ret.outputs /\ ret.outputs[k] = spec.value

\* A define has returned that omitted an optional literal without a value,
\* kept an optional literal with one, and emitted a string under the type
\* tag number
DefineLiteralCases ==
  /\ Returning("define")
  /\ \E k1, k2, k3 \in DOMAIN routines[ret.trace.routine].outputs :
       LET s1 == routines[ret.trace.routine].outputs[k1]
           s2 == routines[ret.trace.routine].outputs[k2]
           s3 == routines[ret.trace.routine].outputs[k3]
       IN /\ s1.kind = "object" /\ s1.optional /\ s1.value = Undefined
          /\ k1 \notin DOMAIN ret.outputs
          /\ s2.kind = "object" /\ s2.optional /\ s2.value # Undefined
          /\ ret.outputs[k2] = s2.value
          /\ s3.kind = "object" /\ s3.type = "number" /\ s3.value.t = "string"
          /\ ret.outputs[k3] = s3.value

\* C8: the refinement program (main = cycle) run with the refinement test's
\* stub, which answers is_complete=false on its first call and true
\* afterwards, terminates: the run does not fail, the stub is called at most
\* twice, and when the run is done it was called exactly twice and the
\* outputs hold the text of the last call.
RefinementEndsAfterTwoCalls ==
  program.main = "cycle" /\ llmService = "MockLLMService" =>
    /\ pc # "failed"
    /\ callCount <= 2
    /\ pc = "done" =>
         /\ callCount = 2
         /\ "final_text" \in DOMAIN result[1].outputs
         /\ result[1].outputs["final_text"] = Str("final version")

SixKinds == {"prompt", "code", "define", "if", "compose", "join"}

\* The pending executeRoutine call names no routine, or one of no known kind
Unexecutable ==
  /\ pc = "call"
  /\ \/ ~Known(arg.routineName)
     \/ RoutineType(RoutineAt(arg.routineName)) \notin SixKinds

\* C9: executing a name that is not in the routine mapping (the entry name
\* or a name reached at any depth), or a routine of none of the six kinds,
\* fails the run at once: every enclosing handler is abandoned, the caller
\* of run gets the error and no outputs or trace, and nothing runs after.
UnexecutableIsFatal ==
  [][/\ pc = "failed" => UNCHANGED <<pc, arg, stack, ret, result, error, callCount>>
     /\ Unexecutable =>
          /\ pc' = "failed"
          /\ stack' = <<>>
          /\ result' = <<>>
          /\ error' = IF Known(arg.routineName)
                      THEN "Unknown routine type: "
                             \o RoutineType(RoutineAt(arg.routineName))
                      ELSE "Routine '" \o arg.routineName \o "' not found."]_vars

\* A run failed on a missing routine reached inside a join inside nothing
\* else than run, after an earlier branch had returned
MissingRoutineAtDepth ==
  /\ pc = "failed"
  /\ program.main = "fan_missing"
  /\ error = "Routine 'nowhere' not found."
  /\ result = <<>>

\* Whether call c of the service failed: it threw, or its promise rejects
ServiceFailed(c) ==
  \/ c.answer.kind = "throw"
  \/ c.answer.kind = "return" /\ c.answer.value.t = "promise"
       /\ c.answer.value.settles = "rejected"

\* C10: a failure of the generative service during a prompt routine aborts
\* the run: once a service call has failed the run is failed, nothing more
\* is executed and run returns no outputs or trace.
ServiceFailureIsFatal ==
  (\E i \in DOMAIN calls : ServiceFailed(calls[i])) => pc = "failed" /\ result = <<>>

\* Whether the text `message` contains the text `name`
Mentions(message, name) ==
  \E i \in 1..(Len(message) - Len(name) + 1) :
    SubSeq(message, i, i + Len(name) - 1) = name

\* The pending call is of an if routine whose selected branch has no name
MissingBranch ==
  /\ pc = "call"
  /\ Known(arg.routineName)
  /\ RoutineType(RoutineAt(arg.routineName)) = "if"
  /\ BranchRoutineName(RoutineAt(arg.routineName),
                       IfBranch(RoutineAt(arg.routineName), arg.env)) = ""

\* The step is a prompt routine's service call, and the call failed
ServiceFailsInStep ==
  /\ Len(calls') = Len(calls) + 1
  /\ ServiceFailed(calls'[Len(calls')])

\* C11: every fatal failure (unresolved routine name, unknown routine kind,
\* missing if branch, missing entry routine, failure of the generative
\* service) aborts the run, and the description the caller of run receives
\* contains the name of the routine that failed (for the missing entry
\* routine, the entry name `main`) besides the nature of the failure.
FatalFailureNamesRoutine ==
  [][/\ Unexecutable \/ MissingBranch \/ ServiceFailsInStep =>
          /\ pc' = "failed"
          /\ result' = <<>>
          /\ Mentions(error', arg.routineName)
     /\ pc = "idle" /\ program.main = "" =>
          /\ pc' = "failed"
          /\ result' = <<>>
          /\ Mentions(error', "main")]_vars

StartsWith(message, prefix) ==
  Len(message) >= Len(prefix) /\ SubSeq(message, 1, Len(prefix)) = prefix

\* The run failed with routine-not-found, unknown-routine-kind or
\* missing-branch
ResolutionFailure ==
  /\ pc = "failed"
  /\ \/ StartsWith(error, "Routine '")
     \/ StartsWith(error, "Unknown routine type: ")
     \/ StartsWith(error, "'if' routine missing '")

\* Every name the mapping refers to is a routine of the mapping, every
\* compose/join list has an element and every routine has one of the six kinds
WellFormed(p) ==
  /\ p.main \in DOMAIN p.routines
  /\ \A n \in DOMAIN p.routines :
       LET routine == p.routines[n]
       IN /\ RoutineType(routine) \in SixKinds
          /\ RoutineType(routine) = "if" =>
               /\ "then" \in DOMAIN routine /\ routine.then \in DOMAIN p.routines
               /\ "else" \in DOMAIN routine /\ routine.else \in DOMAIN p.routines
          /\ RoutineType(routine) \in {"compose", "join"} =>
               /\ "routines" \in DOMAIN routine
               /\ routine.routines # <<>>
               /\ SeqRange(routine.routines) \subseteq DOMAIN p.routines

\* C12: validateProgram accepts a program only if the entry name, every if
\* routine's then and else names and every name of every compose/join list
\* are routines of the mapping, every such list is non-empty and every
\* routine has one of the six kinds; so a run of an accepted program, on
\* any initial environment, never fails with routine-not-found,
\* unknown-routine-kind or missing-branch.  Stated of every run that has
\* ended, of a program the validator accepted.
AcceptedProgramResolves ==
  validation = "accepted" /\ pc \in {"done", "failed"} =>
    WellFormed(program) /\ ~ResolutionFailure

\* The validator rejected the program on account of a define reference
RejectedForReference == StartsWith(validation, "Input \"")

\* Some define routine of the program, reachable or not, has an entry named
\* `name` that is a literal or a reference
ProducedByDefine(name) ==
  \E n \in DOMAIN routines :
    /\ RoutineType(routines[n]) = "define"
    /\ "outputs" \in DOMAIN routines[n]
    /\ name \in DOMAIN routines[n].outputs
    /\ routines[n].outputs[name].kind \in {"object", "string"}

\* The names the define routines of the program refer to without a "?"
RequiredReferences ==
  UNION {{routines[n].outputs[k].name :
            k \in {k \in DOMAIN routines[n].outputs :
                     /\ routines[n].outputs[k].kind = "string"
                     /\ routines[n].outputs[k].mark = ""}} :
         n \in {n \in DefineRoutinesOf(routines) : "outputs" \in DOMAIN routines[n]}}

\* C13 as claimed: the validator rejects no program that would execute
\* successfully; whenever a run of the program, on some initial environment,
\* completes without a fatal error, validateProgram did not reject the
\* program on account of a define reference.
NoRunnableProgramRejected ==
  pc = "done" => ~RejectedForReference

\* C13 as amended: the reference check whitelists every name produced by
\* any define routine anywhere in the program: the validator rejects a
\* program on account of a define reference only for a required reference
\* to a name that no define routine of the program produces, and never for
\* an optional one.
ReferenceCheckWhitelistsDefines ==
  RejectedForReference =>
    \E name \in RequiredReferences :
      /\ validation = "Input \"" \o name \o "\" not found"
      /\ ~ProducedByDefine(name)

\* An accepted program has run its entry routine, a define that requires a
\* name only another define routine of the program produces, to completion
WhitelistedAcrossRoutines ==
  /\ pc = "done"
  /\ validation = "accepted"
  /\ RoutineType(routines[program.main]) = "define"
  /\ \E k \in DOMAIN routines[program.main].outputs :
       LET spec == routines[program.main].outputs[k]
       IN /\ spec.kind = "string"
          /\ spec.mark = ""
          /\ spec.name \notin DOMAIN routines[program.main].outputs
          /\ ProducedByDefine(spec.name)

\* C14: a compose or join never applies its own passthrough list.  A name
\* of a compose's passthrough list that is present in its input environment
\* is in its outputs only if the last step's outputs hold it, and then with
\* the last step's value; a name of a join's passthrough list that is
\* present in its input environment is in its outputs only if some branch's
\* outputs hold it.  (Stated of a compose with at least one step, as the
\* data model has it; a compose without steps returns its input whole.)
OwnPassthroughNotApplied ==
  /\ Returning("compose") /\ ret.trace.subtraces # <<>> =>
       LET t == ret.trace
           last == t.subtraces[Len(t.subtraces)]
       IN \A k \in PassthroughNames(routines[t.routine]) \cap DOMAIN t.inputs :
            k \in DOMAIN ret.outputs =>
              k \in DOMAIN last.outputs /\ ret.outputs[k] = last.outputs[k]
  /\ Returning("join") =>
       LET t == ret.trace
       IN \A k \in PassthroughNames(routines[t.routine]) \cap DOMAIN t.inputs :
            k \in DOMAIN ret.outputs =>
              \E i \in DOMAIN t.subtraces : k \in DOMAIN t.subtraces[i].outputs

\* A compose with steps has returned without a name that its passthrough
\* list holds and its input environment had
ComposePassthroughDropped ==
  /\ Returning("compose")
  /\ ret.trace.subtraces # <<>>
  /\ \E k \in PassthroughNames(routines[ret.trace.routine]) \cap DOMAIN ret.trace.inputs :
       k \notin DOMAIN ret.outputs

\* C15: an if routine calls the selected branch routine on exactly its own
\* input environment; its outputs are its passthrough entries overlaid by
\* the branch's outputs, the branch winning a shared key; its trace records
\* the branch taken and holds the branch's trace as its single child.
IfRunsBranchOnSameEnv ==
  /\ Calling("if") =>
       /\ arg.env = Top.trace.inputs
       /\ arg.routineName = routines[Top.routine][Top.branch]
  /\ Returning("if") =>
       LET t == ret.trace
           routine == routines[t.routine]
           kept == PassthroughNames(routine) \cap DOMAIN t.inputs
       IN /\ t.branch_taken = IfBranch(routine, t.inputs)
          /\ t.subtrace.routine = routine[t.branch_taken]
          /\ t.subtrace.inputs = t.inputs
          /\ DOMAIN ret.outputs = kept \cup DOMAIN t.subtrace.outputs
          /\ \A k \in DOMAIN ret.outputs :
               ret.outputs[k] = IF k \in DOMAIN t.subtrace.outputs
                                THEN t.subtrace.outputs[k]
                                ELSE t.inputs[k]
          /\ t.outputs = ret.outputs

\* An if has returned whose branch wrote a key of the passthrough list with
\* a value other than the input's, and the outputs hold the branch's value
IfBranchOverwrites ==
  /\ Returning("if")
  /\ \E k \in PassthroughNames(routines[ret.trace.routine]) \cap DOMAIN ret.trace.inputs :
       /\ k \in DOMAIN ret.trace.subtrace.outputs
       /\ ret.trace.subtrace.outputs[k] # ret.trace.inputs[k]
       /\ ret.outputs[k] = ret.trace.subtrace.outputs[k]

\* C16: an if routine fails with the missing-branch error exactly when the
\* branch its condition selects has no name on the routine object, and it
\* does so at once, before any sub-routine is executed; otherwise its next
\* step is the call of the selected branch (or the engine's stack overflow),
\* whatever the other branch names or lacks.
IfMissingBranchExactly ==
  [][pc = "call" /\ Known(arg.routineName)
       /\ RoutineType(RoutineAt(arg.routineName)) = "if" =>
         LET routine == RoutineAt(arg.routineName)
             branch == IfBranch(routine, arg.env)
         IN /\ error' = "'if' routine missing '" \o branch \o "' branch."
                 <=> branch \notin DOMAIN routine
            /\ branch \notin DOMAIN routine =>
                 /\ pc' = "failed"
                 /\ result' = <<>>
                 /\ calls' = calls
            /\ branch \in DOMAIN routine =>
                 \/ /\ pc' = "call"
                    /\ arg' = [routineName |-> routine[branch], env |-> arg.env,
                               envId |-> arg.envId]
                 \/ /\ pc' = "failed"
                    /\ error' = "Maximum call stack size exceeded"]_vars

\* A run failed on an if without an else name, reached as the second step
\* of nothing but run, with no service call made
IfFailedOnMissingElse ==
  /\ pc = "failed"
  /\ error = "'if' routine missing 'else' branch."
  /\ program.main = "if_no_else"
  /\ calls = <<>>

RECURSIVE SubstitutePresent(_, _)
\* The user message as C17 describes it: each placeholder replaced by the
\* text of the name's value when the name is present in the environment,
\* and by the empty string when it is absent
SubstitutePresent(template, env) ==
  IF template = <<>> THEN ""
  ELSE LET seg == Head(template)
           piece == IF "var" \in DOMAIN seg
                    THEN (IF seg.var \in DOMAIN env THEN env[seg.var].s ELSE "")
                    ELSE seg.lit
       IN piece \o SubstitutePresent(Tail(template), env)

\* The mapping a service call returned, directly or as what its promise
\* resolves to
ServiceMapping(v) == IF v.t = "promise" THEN OwnProps(v.value) ELSE OwnProps(v)

\* C17: a prompt routine calls the generative service exactly once, with
\* the developer message verbatim and the user message obtained from the
\* template by replacing every ${name} by the text of name's value when name
\* is present in the input environment and by the empty string when it is
\* absent; when the service returns, the outputs are the passthrough entries
\* overlaid by the mapping it returned (the service winning a shared key) and
\* the trace records exactly the message pair that was sent.
PromptCallsServiceOnce ==
  [][pc = "call" /\ Known(arg.routineName)
       /\ RoutineType(RoutineAt(arg.routineName)) = "prompt" =>
         LET routine == RoutineAt(arg.routineName)
             sent == calls'[Len(calls')]
             kept == PassthroughNames(routine) \cap DOMAIN arg.env
         IN /\ Len(calls') = Len(calls) + 1
            /\ sent.routine = arg.routineName
            /\ sent.dev_msg = routine.dev_msg
            /\ sent.user_msg = SubstitutePresent(routine.user_msg, arg.env)
            /\ sent.answer.kind = "return" =>
                 LET mapping == ServiceMapping(sent.answer.value)
                 IN /\ pc' = "return"
                    /\ DOMAIN ret'.outputs = kept \cup DOMAIN mapping
                    /\ \A k \in DOMAIN ret'.outputs :
                         ret'.outputs[k] = IF k \in DOMAIN mapping THEN mapping[k]
                                           ELSE arg.env[k]
                    /\ ret'.trace.llm_call =
                         [dev_msg |-> sent.dev_msg, user_msg |-> sent.user_msg]]_vars

RECURSIVE PromptsOf(_)
RECURSIVE PromptsOfAll(_)
\* The prompt routines of a trace tree, depth first and left to right
PromptsOf(t) ==
  CASE t.type = "prompt" -> <<t.routine>>
    [] t.type = "if" -> PromptsOf(t.subtrace)
    [] t.type \in {"compose", "join"} -> PromptsOfAll(t.subtraces)
    [] OTHER -> <<>>

PromptsOfAll(ts) ==
  IF ts = <<>> THEN <<>> ELSE PromptsOf(Head(ts)) \o PromptsOfAll(Tail(ts))

\* C19: evaluation is strictly sequential.  While the engine is executing,
\* every service call issued so far has completed (a call completes before
\* its caller proceeds); a compose step or join branch is started only when
\* all its preceding siblings have returned; and the service calls of a
\* finished run are, in order, the prompt routines of its trace taken depth
\* first and left to right.
SequentialEvaluation ==
  /\ pc \in {"call", "return"} => \A i \in DOMAIN calls : calls[i].completed
  /\ Calling("compose") \/ Calling("join") =>
       /\ Len(Top.subtraces) = Top.i - 1
       /\ arg.routineName = routines[Top.routine].routines[Top.i]
  /\ pc = "done" =>
       [i \in DOMAIN calls |-> calls[i].routine] = PromptsOf(result[1].trace)

\* The child traces of a node, in order
Children(t) ==
  IF "subtraces" \in DOMAIN t THEN t.subtraces
  ELSE IF "subtrace" \in DOMAIN t THEN <<t.subtrace>>
  ELSE <<>>

\* The routines a node's handler calls, in call order
CalledBy(t) ==
  LET routine == RoutineAt(t.routine)
  IN CASE t.type \in {"compose", "join"} -> routine.routines
       [] t.type = "if" -> <<routine[t.branch_taken]>>
       [] OTHER -> <<>>

RECURSIVE TraceMirrors(_)
\* The node and everything below it is as C18 describes
TraceMirrors(t) ==
  LET sub == Children(t)
      n == Len(sub)
  IN /\ {"routine", "type", "inputs", "outputs"} \subseteq DOMAIN t
     /\ t.type = RoutineType(RoutineAt(t.routine))
     /\ t.type = "if" <=> "subtrace" \in DOMAIN t
     /\ t.type \in {"compose", "join"} <=> "subtraces" \in DOMAIN t
     /\ n = Len(CalledBy(t))
     /\ \A i \in 1..n : sub[i].routine = CalledBy(t)[i]
     /\ t.type = "compose" /\ n >= 1 =>
          /\ sub[1].inputs = t.inputs
          /\ \A i \in 1..(n - 1) : sub[i + 1].inputs = sub[i].outputs
          /\ t.outputs = sub[n].outputs
     /\ t.type \in {"join", "if"} => \A i \in 1..n : sub[i].inputs = t.inputs
     /\ \A i \in 1..n : TraceMirrors(sub[i])

\* C18: in the trace a successful run returns, every node carries the
\* routine name, its kind, the inputs it received and the outputs it
\* returned, and the tree mirrors the calls: a compose node has one child
\* per step in order, child 1 with the compose's inputs, child i+1 with
\* inputs equal to child i's outputs, and the compose's outputs are the last
\* child's; a join node has one child per branch in order, each with the
\* join's inputs; an if node has one child, with the if's inputs.
TraceMirrorsCalls ==
  pc = "done" =>
    /\ result[1].trace.routine = program.main
    /\ result[1].trace.outputs = result[1].outputs
    /\ TraceMirrors(result[1].trace)

\* The active handler at position i is the same activation after the step
SameFrame(i) == i \in DOMAIN stack /\ i \in DOMAIN stack'

\* C20: no routine execution changes the environment it was given, and no
\* recorded trace node changes after its routine call returns: in every
\* step of a run the object passed to run keeps its keys and values, so
\* does the environment of every active handler (the object it was given
\* and, while a compose waits for a step, the object it gave that step),
\* and so does every completed child trace a handler holds.
EnvironmentsAndTracesNeverChange ==
  [][/\ pc # "idle" => initialEnv' = initialEnv
     /\ \A i \in DOMAIN stack :
          SameFrame(i) =>
            /\ stack'[i].env = stack[i].env
            /\ "currentEnv" \in DOMAIN stack[i] /\ stack'[i].i = stack[i].i =>
                 stack'[i].currentEnv = stack[i].currentEnv
            /\ "subtraces" \in DOMAIN stack[i] =>
                 \A j \in DOMAIN stack[i].subtraces :
                   stack'[i].subtraces[j] = stack[i].subtraces[j]]_vars

\* The names a routine refers to: then/else of an if, the list of a compose
\* or join
References(routine) ==
  CASE RoutineType(routine) = "if" ->
         {routine[b] : b \in {"then", "else"} \cap DOMAIN routine}
    [] RoutineType(routine) \in {"compose", "join"} ->
         IF "routines" \in DOMAIN routine THEN SeqRange(routine.routines) ELSE {}
    [] OTHER -> {}

\* The references of the routines named in `names`, within table
ReferencesOf(table, names) ==
  UNION {References(table[n]) : n \in names \cap DOMAIN table}

RECURSIVE ReachableFrom(_, _)
\* Every name reached from `names` by following references
ReachableFrom(table, names) ==
  LET more == names \cup ReferencesOf(table, names)
  IN IF more = names THEN names ELSE ReachableFrom(table, more)

\* A routine reached from the entry name refers, directly or through
\* others, to itself
CycleFromMain(p) ==
  \E n \in ReachableFrom(p.routines, {p.main}) :
    n \in ReachableFrom(p.routines, ReferencesOf(p.routines, {n}))

StackOverflow == "Maximum call stack size exceeded"

\* C21 as amended: every run ends, by return or by failure, whatever the
\* program and the initial environment; a run of a program whose references
\* form no cycle never exhausts the call stack, so unbounded recursion comes
\* from a reference cycle only, and it ends the run with the engine's stack
\* overflow error instead of going on forever.
EveryRunEnds ==
  /\ [](error = StackOverflow => CycleFromMain(program))
  /\ [](pc = "failed" /\ error = StackOverflow => result = <<>> /\ stack = <<>>)
  /\ (pc = "call") ~> (pc \in {"done", "failed"})

\* validateProgram accepted a program whose entry is a compose that lists
\* itself, and its run has ended with the stack overflow error
AcceptedCycleOverflowed ==
  /\ validation = "accepted"
  /\ program.main \in DOMAIN routines
  /\ RoutineType(routines[program.main]) = "compose"
  /\ program.main \in References(routines[program.main])
  /\ pc = "failed"
  /\ error = StackOverflow
  /\ result = <<>>

\* C21: a program validateProgram accepts whose references form a cycle
\* that no branch leaves (a compose that lists itself) runs forever: its
\* run never returns and never fails.
AcceptedCycleRunsForever ==
  validation = "accepted" /\ program.main \in DOMAIN routines
    /\ References(routines[program.main]) = {program.main}
    => pc \notin {"done", "failed"}

\* The entries of a define that refer to the name of an entry of the same
\* define
SelfReferences(routine) ==
  {k \in DOMAIN routine.outputs :
     /\ routine.outputs[k].kind = "string"
     /\ routine.outputs[k].name \in DOMAIN routine.outputs}

\* validateDefineRoutine, given no inputs at all, finds no fault with a
\* reference to the name of one of the define's own entries
OwnNamesPassValidation(routine) ==
  \A k \in SelfReferences(routine) :
    ("Input \"" \o routine.outputs[k].name \o "\" not found")
      \notin ValidateDefineRoutine(routine, {})

\* C22: a define resolves every reference against its input environment
\* only, never against what it emits: when entry k2 refers to the name k1
\* of another entry of the same define, k2 holds the input's value of k1 if
\* the input has k1, and if it has not, k2 holds undefined (a required
\* reference) or is not written (an optional one: the key is in the outputs
\* only as the routine's own passthrough copy of a same-named input),
\* whatever k1's entry emits; and the validator finds no fault with such a
\* reference, since it counts the define's own entry names as available.
DefineResolvesAgainstInputOnly ==
  Returning("define") =>
    LET routine == routines[ret.trace.routine]
        env == ret.trace.inputs
        out == ret.outputs
    IN /\ OwnNamesPassValidation(routine)
       /\ \A k2 \in SelfReferences(routine) :
            LET k1 == routine.outputs[k2].name
                optional == routine.outputs[k2].mark = "?"
            IN /\ k1 \in DOMAIN env => k2 \in DOMAIN out /\ out[k2] = env[k1]
               /\ k1 \notin DOMAIN env /\ ~optional =>
                    k2 \in DOMAIN out /\ out[k2] = Undefined
               /\ k1 \notin DOMAIN env /\ optional /\ k2 \in DOMAIN out =>
                    /\ k2 \in PassthroughNames(routine) \cap DOMAIN env
                    /\ out[k2] = env[k2]

\* A define of a program the validator accepted has returned: an entry a
\* missing from the input was emitted with a value, the required
\* reference to a holds undefined and the optional reference to a was not
\* written
SelfReferenceGotUndefined ==
  /\ validation = "accepted"
  /\ Returning("define")
  /\ \E k2, k3 \in SelfReferences(routines[ret.trace.routine]) :
       LET specs == routines[ret.trace.routine].outputs
           k1 == specs[k2].name
       IN /\ specs[k3].name = k1
          /\ k1 \notin DOMAIN ret.trace.inputs
          /\ k1 \in DOMAIN ret.outputs /\ ret.outputs[k1] \notin {Undefined, Null}
          /\ specs[k2].mark = "" /\ ret.outputs[k2] = Undefined
          /\ specs[k3].mark = "?" /\ k3 \notin DOMAIN ret.outputs
====
